---- MODULE Spec2Model ----
(***************************************************************************)
(* The simulated exchange of src/src/exchange/exchange.ts together with    *)
(* the wallet (src/unnamed/part_003) and the price registry                *)
(* (src/src/core/price.ts).                                                *)
(*                                                                         *)
(* Numbers.  The program computes with JavaScript numbers; here every      *)
(* number is an exact rational.  Instrument quantities and prices are      *)
(* integers, a fiat amount is an integer count of 1/MoneyScale fiat units  *)
(* and a fee rate is an integer count of thousandths, so that              *)
(* price * amount * rate is exact.  A volume-weighted entry price is the   *)
(* reduced fraction entryNum / entryDen.  Rounding of binary floating      *)
(* point is not modelled.                                                  *)
(***************************************************************************)
EXTENDS Integers, Sequences, FiniteSets, TLC

(* ----------------------------- bounds --------------------------------- *)
MaxSteps == 4
MaxTime == 1
MaxCandles == 3
InitialFiat == 45

(* ------------------------ program constants --------------------------- *)
MoneyScale == 1000
MaintenanceMarginRate == 50

Symbols == {"BTC/USDT", "ETH/USDT"}
FeeKeys == {"spotBuy", "spotSell", "limitBuy", "limitSell", "shortOpen", "shortClose"}

DefaultFeeRates ==
    [k \in FeeKeys |-> IF k \in {"limitBuy", "limitSell"} THEN 2 ELSE 1]

(* inputs *)
Prices == {0, 20, 21, 40}
InitialPrices == {0, 20}
LimitPrices == {0, 20, 21}
UpdatePrices == {20, 21}
Amounts == {0, 1}
\* second and third argument of placeBuyOrder: (price, amount) as exchange.ts
\* declares them, and (amount, price) as dynamic-hedge-grid.ts passes them
PlaceBuyArgs == (LimitPrices \X Amounts) \cup {<<1, 20>>}
Leverages == {0, 2, 10}
Undefined == -1

EmptyMap == [x \in {} |-> 0]

FeeUpdates ==
    { EmptyMap,
      [k \in {"limitBuy"} |-> 3],
      [k \in {"spotBuy", "limitSell"} |-> IF k = "spotBuy" THEN 0 ELSE 3],
      [k \in {"spotSell", "shortOpen"} |-> IF k = "spotSell" THEN 2 ELSE -1] }

VARIABLES
    fiatBalance,      \* Wallet.fiatBalance, in 1/MoneyScale fiat units
    balances,         \* Wallet.balances
    prices,           \* price.ts: prices
    feeRates,         \* Exchange.feeRates, thousandths
    pendingOrders,    \* Exchange.pendingOrders: order id -> PendingOrder
    shortPositions,   \* Exchange.shortPositions: symbol -> ShortPosition
    orderIdCounter,   \* Exchange.orderIdCounter
    now,              \* Date.now()
    steps,            \* number of calls made so far
    lastOp,           \* the last call: method, arguments, outcome
    orderLog,         \* per issued order id: what placement froze, and its fate
    prePlace,         \* state before the placement that was the last call
    strategy,         \* the Strategy object and the position of its running code
    microtasks,       \* continuations of awaits that have not run yet
    backtest          \* Backtest.run: its position, its data and its arrays

vars == <<fiatBalance, balances, prices, feeRates, pendingOrders, shortPositions,
          orderIdCounter, now, steps, lastOp, orderLog, prePlace, strategy,
          microtasks, backtest>>

\* what belongs to the strategies and to the backtest driver
drivers == <<strategy, microtasks, backtest>>

\* no strategy and no backtest: the Exchange is called directly
NoStrategy == [kind |-> "none"]
NoBacktest == [pc |-> "none"]

(* --------------------------- price.ts --------------------------------- *)
\* getPrice throws when the stored price is falsy (never set, or 0)
HasPrice(symbol) == prices[symbol] # 0

getPrice(symbol) == prices[symbol]

(* ---------------------------- Wallet ---------------------------------- *)
\* mutant: the balance read is one more than the balance held
getBalanceAmple(bal, symbol) == bal[symbol] + 1

\* this.balances.get(symbol) || 0
getBalance(bal, symbol) == IF symbol \in DOMAIN bal THEN bal[symbol] ELSE 0

\* mutant: the setters accept a negative amount
SetThrowsNever(amount) == FALSE

\* setBalance / setFiatBalance throw on a negative amount
SetThrows(amount) == amount < 0

\* subtractBalance / subtractFiatBalance throw when the balance is short
SubtractThrows(current, amount) == current < amount \/ SetThrows(current - amount)

addBalance(bal, symbol, amount) == [bal EXCEPT ![symbol] = @ + amount]

\* mutant: the quantity is not taken from the balance
subtractBalanceNoop(bal, symbol, amount) == bal

subtractBalance(bal, symbol, amount) == [bal EXCEPT ![symbol] = @ - amount]

(* --------------------------- Exchange --------------------------------- *)
\* mutant: the counter is not advanced before it is formatted
generateOrderIdStale(counter) == <<"order", 1>>

generateOrderId(counter) == <<"order", counter + 1>>

\* notional value price * amount, in 1/MoneyScale fiat units
Notional(price, amount) == price * amount * MoneyScale

\* mutant: the rate is applied to the quantity instead of the notional value
FeeOnAmount(price, amount, rate) == amount * rate

\* notional * rate, rate in thousandths
Fee(price, amount, rate) == price * amount * rate

NoOp == [op |-> "none", sym |-> "", a |-> 0, b |-> 0, id |-> <<>>,
         res |-> "ok", fee |-> 0]

Call(op, sym, a, b, id, res, fee) ==
    [op |-> op, sym |-> sym, a |-> a, b |-> b, id |-> id, res |-> res, fee |-> fee]

NoSnapshot ==
    [taken |-> FALSE, id |-> <<>>, fiat |-> 0, bal |-> <<>>, orders |-> <<>>,
     shorts |-> <<>>]

Snapshot(orderId) ==
    [taken |-> TRUE, id |-> orderId, fiat |-> fiatBalance, bal |-> balances,
     orders |-> pendingOrders, shorts |-> shortPositions]

\* a call that throws before it changed anything
Fails(op, sym, a, b, id, res) ==
    /\ lastOp' = Call(op, sym, a, b, id, res, 0)
    /\ prePlace' = NoSnapshot
    /\ UNCHANGED <<fiatBalance, balances, prices, feeRates, pendingOrders,
                   shortPositions, orderIdCounter, now, orderLog>>

Init ==
    /\ fiatBalance = InitialFiat * MoneyScale
    /\ balances = [s \in Symbols |-> 0]
    /\ prices \in [Symbols -> InitialPrices]
    /\ feeRates = DefaultFeeRates
    /\ pendingOrders = EmptyMap
    /\ shortPositions = EmptyMap
    /\ orderIdCounter = 0
    /\ now = 0
    /\ steps = 0
    /\ lastOp = NoOp
    /\ orderLog = EmptyMap
    /\ prePlace = NoSnapshot
    /\ strategy = NoStrategy
    /\ microtasks = <<>>
    /\ backtest = NoBacktest

setPrice(symbol, price) ==
    /\ prices' = [prices EXCEPT ![symbol] = price]
    /\ lastOp' = Call("setPrice", symbol, price, 0, <<>>, "ok", 0)
    /\ prePlace' = NoSnapshot
    /\ UNCHANGED <<fiatBalance, balances, feeRates, pendingOrders, shortPositions,
                   orderIdCounter, now, orderLog>>

Tick ==
    /\ now < MaxTime
    /\ now' = now + 1
    /\ lastOp' = NoOp
    /\ prePlace' = NoSnapshot
    /\ UNCHANGED <<fiatBalance, balances, prices, feeRates, pendingOrders,
                   shortPositions, orderIdCounter, orderLog>>

\* mutant: no check of the fiat balance before the first write, and the
\* instrument is credited before the fiat is taken
spotBuyCreditFirst(symbol, amount) ==
    IF amount <= 0 THEN Fails("spotBuy", symbol, amount, 0, <<>>, "InvalidAmount")
    ELSE IF ~HasPrice(symbol) THEN Fails("spotBuy", symbol, amount, 0, <<>>, "PriceNotFound")
    ELSE
      LET price == getPrice(symbol)
          fee == Fee(price, amount, feeRates["spotBuy"])
          totalCostWithFee == Notional(price, amount) + fee
          thrown == SubtractThrows(fiatBalance, totalCostWithFee)
      IN  /\ balances' = addBalance(balances, symbol, amount)
          /\ fiatBalance' = IF thrown THEN fiatBalance ELSE fiatBalance - totalCostWithFee
          /\ lastOp' = Call("spotBuy", symbol, amount, 0, <<>>,
                            IF thrown THEN "InsufficientFunds" ELSE "ok",
                            IF thrown THEN 0 ELSE fee)
          /\ prePlace' = NoSnapshot
          /\ UNCHANGED <<prices, feeRates, pendingOrders, shortPositions,
                         orderIdCounter, now, orderLog>>

spotBuy(symbol, amount) ==
    IF amount <= 0 THEN Fails("spotBuy", symbol, amount, 0, <<>>, "InvalidAmount")
    ELSE IF ~HasPrice(symbol) THEN Fails("spotBuy", symbol, amount, 0, <<>>, "PriceNotFound")
    ELSE
      LET price == getPrice(symbol)
          totalCost == Notional(price, amount)
          fee == Fee(price, amount, feeRates["spotBuy"])
          totalCostWithFee == totalCost + fee
      IN  IF fiatBalance < totalCostWithFee
            THEN Fails("spotBuy", symbol, amount, 0, <<>>, "InsufficientFunds")
          ELSE IF SubtractThrows(fiatBalance, totalCostWithFee)
            THEN Fails("spotBuy", symbol, amount, 0, <<>>, "NegativeBalance")
          ELSE
            /\ fiatBalance' = fiatBalance - totalCostWithFee
            /\ balances' = addBalance(balances, symbol, amount)
            /\ lastOp' = Call("spotBuy", symbol, amount, 0, <<>>, "ok", fee)
            /\ prePlace' = NoSnapshot
            /\ UNCHANGED <<prices, feeRates, pendingOrders, shortPositions,
                           orderIdCounter, now, orderLog>>

spotSell(symbol, amount) ==
    IF amount <= 0 THEN Fails("spotSell", symbol, amount, 0, <<>>, "InvalidAmount")
    ELSE IF getBalance(balances, symbol) < amount
      THEN Fails("spotSell", symbol, amount, 0, <<>>, "InsufficientBalance")
    ELSE IF ~HasPrice(symbol) THEN Fails("spotSell", symbol, amount, 0, <<>>, "PriceNotFound")
    ELSE
      LET price == getPrice(symbol)
          totalRevenue == Notional(price, amount)
          fee == Fee(price, amount, feeRates["spotSell"])
          totalRevenueAfterFee == totalRevenue - fee
      IN  IF SubtractThrows(getBalance(balances, symbol), amount)
            THEN Fails("spotSell", symbol, amount, 0, <<>>, "InsufficientBalance")
          ELSE
            \* subtractBalance has run when addFiatBalance throws
            /\ balances' = subtractBalance(balances, symbol, amount)
            /\ IF SetThrows(fiatBalance + totalRevenueAfterFee)
                 THEN /\ fiatBalance' = fiatBalance
                      /\ lastOp' = Call("spotSell", symbol, amount, 0, <<>>,
                                        "NegativeBalance", 0)
                 ELSE /\ fiatBalance' = fiatBalance + totalRevenueAfterFee
                      /\ lastOp' = Call("spotSell", symbol, amount, 0, <<>>, "ok", fee)
            /\ prePlace' = NoSnapshot
            /\ UNCHANGED <<prices, feeRates, pendingOrders, shortPositions,
                           orderIdCounter, now, orderLog>>

(* ------------------------- pending orders ----------------------------- *)
\* mutant: Map.delete is forgotten
RemoveKeeps(map, key) == map

\* mutant: Map.clear instead of Map.delete
RemoveAll(map, key) == EmptyMap

Remove(map, key) == [x \in DOMAIN map \ {key} |-> map[x]]

Put(map, key, value) == [x \in DOMAIN map \cup {key} |-> IF x = key THEN value ELSE map[x]]

PendingOrder(orderId, symbol, isBuy, price, amount) ==
    [id |-> orderId, symbol |-> symbol, isBuy |-> isBuy, price |-> price,
     amount |-> amount, timestamp |-> now, totalCostWithFee |-> Undefined]

LogPlaced(order, frozenFiat, frozenQty) ==
    Put(orderLog, order.id,
        [order |-> order, frozenFiat |-> frozenFiat, frozenQty |-> frozenQty,
         fate |-> "pending", releases |-> 0, refundFiat |-> 0, refundQty |-> 0])

placeBuyOrder(symbol, price, amount) ==
    IF amount <= 0 \/ price <= 0
      THEN Fails("placeBuyOrder", symbol, price, amount, <<>>, "InvalidInput")
    ELSE
      LET totalCost == Notional(price, amount)
          fee == Fee(price, amount, feeRates["limitBuy"])
          totalCostWithFee == totalCost + fee
          orderId == generateOrderId(orderIdCounter)
      IN  IF fiatBalance < totalCostWithFee
            THEN Fails("placeBuyOrder", symbol, price, amount, <<>>, "InsufficientFunds")
          ELSE IF SubtractThrows(fiatBalance, totalCostWithFee)
            THEN Fails("placeBuyOrder", symbol, price, amount, <<>>, "NegativeBalance")
          ELSE
            /\ fiatBalance' = fiatBalance - totalCostWithFee
            /\ orderIdCounter' = orderIdCounter + 1
            /\ pendingOrders' = Put(pendingOrders, orderId,
                                    PendingOrder(orderId, symbol, TRUE, price, amount))
            /\ orderLog' = LogPlaced(pendingOrders'[orderId], fiatBalance - fiatBalance', 0)
            /\ lastOp' = Call("placeBuyOrder", symbol, price, amount, orderId, "ok", fee)
            /\ prePlace' = Snapshot(orderId)
            /\ UNCHANGED <<balances, prices, feeRates, shortPositions, now>>

placeSellOrder(symbol, price, amount) ==
    IF amount <= 0 \/ price <= 0
      THEN Fails("placeSellOrder", symbol, price, amount, <<>>, "InvalidInput")
    ELSE IF getBalance(balances, symbol) < amount
      THEN Fails("placeSellOrder", symbol, price, amount, <<>>, "InsufficientBalance")
    ELSE
      LET orderId == generateOrderId(orderIdCounter)
      IN  /\ balances' = subtractBalance(balances, symbol, amount)
          /\ orderIdCounter' = orderIdCounter + 1
          /\ pendingOrders' = Put(pendingOrders, orderId,
                                  PendingOrder(orderId, symbol, FALSE, price, amount))
          /\ orderLog' = LogPlaced(pendingOrders'[orderId], 0,
                                   balances[symbol] - balances'[symbol])
          /\ lastOp' = Call("placeSellOrder", symbol, price, amount, orderId, "ok", 0)
          /\ prePlace' = Snapshot(orderId)
          /\ UNCHANGED <<fiatBalance, prices, feeRates, shortPositions, now>>

\* mutant: the fee is not handed back
CancelRefundNoFee(order) == Notional(order.price, order.amount)

\* the fiat cancelOrder hands back for a buy order
CancelRefund(order) ==
    Notional(order.price, order.amount)
        + Fee(order.price, order.amount, feeRates["limitBuy"])

cancelOrder(orderId) ==
    IF orderId \notin DOMAIN pendingOrders
      THEN Fails("cancelOrder", "", 0, 0, orderId, "NotFound")
    ELSE
      LET order == pendingOrders[orderId]
          refund == IF order.isBuy THEN CancelRefund(order) ELSE 0
          giveBack == IF order.isBuy THEN 0 ELSE order.amount
      IN  IF SetThrows(fiatBalance + refund)
            THEN Fails("cancelOrder", "", 0, 0, orderId, "NegativeBalance")
          ELSE
            /\ fiatBalance' = fiatBalance + refund
            /\ balances' = addBalance(balances, order.symbol, giveBack)
            /\ pendingOrders' = Remove(pendingOrders, orderId)
            /\ orderLog' = [orderLog EXCEPT ![orderId].fate = "cancelled",
                                            ![orderId].releases = @ + 1,
                                            ![orderId].refundFiat = refund,
                                            ![orderId].refundQty = giveBack]
            /\ lastOp' = Call("cancelOrder", order.symbol, 0, 0, orderId, "ok", 0)
            /\ prePlace' = IF prePlace.id = orderId THEN prePlace ELSE NoSnapshot
            /\ UNCHANGED <<prices, feeRates, shortPositions, orderIdCounter, now>>

(* --------------------------- short positions -------------------------- *)
RECURSIVE GCD(_, _)
GCD(x, y) == IF y = 0 THEN x ELSE GCD(y, x % y)

\* entryPrice * amount of a position, in whole fiat units (an integer: the
\* reduced denominator of a volume-weighted average divides the quantity)
EntryValue(position) == (position.entryNum * position.amount) \div position.entryDen

\* (entryPrice - currentPrice) * amount, in 1/MoneyScale fiat units
Pnl(position, currentPrice) ==
    (EntryValue(position) - currentPrice * position.amount) * MoneyScale

\* mutant: the margin is the whole position value
RequiredMarginUnleveraged(positionValue, leverage) == positionValue

RequiredMargin(positionValue, leverage) == positionValue \div leverage

\* mutant: the new exposure replaces the position instead of being added to it
MergedPositionReplaces(existingPosition, price, amount, requiredMargin) ==
    [existingPosition EXCEPT
        !.amount = amount,
        !.entryNum = price,
        !.entryDen = 1,
        !.margin = requiredMargin]

\* mutant: the entry price of the first open is kept
MergedPositionKeepsEntry(existingPosition, price, amount, requiredMargin) ==
    [existingPosition EXCEPT
        !.amount = existingPosition.amount + amount,
        !.margin = existingPosition.margin + requiredMargin]

MergedPosition(existingPosition, price, amount, requiredMargin) ==
    LET totalAmount == existingPosition.amount + amount
        totalValue == EntryValue(existingPosition) + price * amount
        g == GCD(totalValue, totalAmount)
    IN  [existingPosition EXCEPT
            !.amount = totalAmount,
            !.entryNum = totalValue \div g,
            !.entryDen = totalAmount \div g,
            !.margin = existingPosition.margin + requiredMargin]

NewPosition(symbol, price, amount, leverage, requiredMargin) ==
    [symbol |-> symbol, amount |-> amount, entryNum |-> price, entryDen |-> 1,
     leverage |-> leverage, margin |-> requiredMargin, timestamp |-> now]

openShort(symbol, amount, leverage) ==
    IF amount <= 0 THEN Fails("openShort", symbol, amount, leverage, <<>>, "InvalidAmount")
    ELSE IF leverage < 1
      THEN Fails("openShort", symbol, amount, leverage, <<>>, "InvalidLeverage")
    ELSE IF ~HasPrice(symbol)
      THEN Fails("openShort", symbol, amount, leverage, <<>>, "PriceNotFound")
    ELSE
      LET price == getPrice(symbol)
          positionValue == Notional(price, amount)
          requiredMargin == RequiredMargin(positionValue, leverage)
          fee == Fee(price, amount, feeRates["shortOpen"])
          totalRequired == requiredMargin + fee
      IN  IF fiatBalance < totalRequired
            THEN Fails("openShort", symbol, amount, leverage, <<>>, "InsufficientMargin")
          ELSE IF SubtractThrows(fiatBalance, totalRequired)
            THEN Fails("openShort", symbol, amount, leverage, <<>>, "NegativeBalance")
          ELSE
            /\ fiatBalance' = fiatBalance - totalRequired
            /\ shortPositions' =
                  IF symbol \in DOMAIN shortPositions
                    THEN Put(shortPositions, symbol,
                             MergedPosition(shortPositions[symbol], price, amount,
                                            requiredMargin))
                    ELSE Put(shortPositions, symbol,
                             NewPosition(symbol, price, amount, leverage, requiredMargin))
            /\ lastOp' = Call("openShort", symbol, amount, leverage, <<>>, "ok", fee)
            /\ prePlace' = NoSnapshot
            /\ UNCHANGED <<balances, prices, feeRates, pendingOrders, orderIdCounter,
                           now, orderLog>>

CloseFee(position, currentPrice) ==
    Fee(currentPrice, position.amount, feeRates["shortClose"])

\* mutant: the close fee is not charged
CloseCreditNoFee(position, currentPrice) ==
    position.margin + Pnl(position, currentPrice)

\* what closeShort adds to the fiat balance
CloseCredit(position, currentPrice) ==
    position.margin + Pnl(position, currentPrice) - CloseFee(position, currentPrice)

\* outcome of closeShort in the current state
CloseShortResult(symbol) ==
    IF symbol \notin DOMAIN shortPositions THEN "NotFound"
    ELSE IF ~HasPrice(symbol) THEN "PriceNotFound"
    ELSE IF SetThrows(fiatBalance + CloseCredit(shortPositions[symbol], getPrice(symbol)))
      THEN "NegativeBalance"
    ELSE "ok"

closeShort(symbol) ==
    IF CloseShortResult(symbol) # "ok"
      THEN Fails("closeShort", symbol, 0, 0, <<>>, CloseShortResult(symbol))
    ELSE
      LET position == shortPositions[symbol]
          currentPrice == getPrice(symbol)
      IN  /\ fiatBalance' = fiatBalance + CloseCredit(position, currentPrice)
          /\ shortPositions' = Remove(shortPositions, symbol)
          /\ lastOp' = Call("closeShort", symbol, 0, 0, <<>>, "ok",
                            CloseFee(position, currentPrice))
          /\ prePlace' = NoSnapshot
          /\ UNCHANGED <<balances, prices, feeRates, pendingOrders, orderIdCounter,
                         now, orderLog>>

\* mutant: the entry price is taken for the current price
getUnrealizedPnlFlat(symbol) == 0 * getPrice(symbol)

getUnrealizedPnl(symbol) ==
    IF symbol \notin DOMAIN shortPositions THEN 0
    ELSE Pnl(shortPositions[symbol], getPrice(symbol))

\* currentEquity / positionValue < maintenanceMarginRate, positionValue > 0
ShouldLiquidate(position, currentPrice) ==
    LET currentEquity == position.margin + Pnl(position, currentPrice)
        positionValue == Notional(currentPrice, position.amount)
    IN  currentEquity * MoneyScale < MaintenanceMarginRate * positionValue

\* outcome of checkLiquidation in the current state: "ok" (returns), or the
\* error it throws; "Liquidation" is thrown after closeShort has settled
CheckLiquidationResult(symbol) ==
    IF symbol \notin DOMAIN shortPositions THEN "ok"
    ELSE IF ~HasPrice(symbol) THEN "PriceNotFound"
    ELSE IF ~ShouldLiquidate(shortPositions[symbol], getPrice(symbol)) THEN "ok"
    ELSE IF CloseShortResult(symbol) # "ok" THEN CloseShortResult(symbol)
    ELSE "Liquidation"

checkLiquidation(symbol) ==
    LET res == CheckLiquidationResult(symbol)
    IN  IF res = "Liquidation"
          THEN LET position == shortPositions[symbol]
                   currentPrice == getPrice(symbol)
               IN  /\ fiatBalance' = fiatBalance + CloseCredit(position, currentPrice)
                   /\ shortPositions' = Remove(shortPositions, symbol)
                   /\ lastOp' = Call("checkLiquidation", symbol, 0, 0, <<>>, res,
                                     CloseFee(position, currentPrice))
                   /\ prePlace' = NoSnapshot
                   /\ UNCHANGED <<balances, prices, feeRates, pendingOrders,
                                  orderIdCounter, now, orderLog>>
          ELSE Fails("checkLiquidation", symbol, 0, 0, <<>>, res)

(* --------------------------- onPriceUpdate ---------------------------- *)
ShouldExecute(order, newPrice) ==
    IF order.isBuy THEN newPrice <= order.price ELSE newPrice >= order.price

\* mutant: the limitSell fee is not deducted
SellProceedsNoFee(order) == Notional(order.price, order.amount)

\* what a filled sell order adds to the fiat balance
SellProceeds(order) ==
    Notional(order.price, order.amount)
        - Fee(order.price, order.amount, feeRates["limitSell"])

\* The loop over pendingOrders, a Map iterated in insertion order, which is the
\* order of the counter values.  st.err is set by a throw of addFiatBalance,
\* which leaves the loop with the earlier fills done.
RECURSIVE MatchOrders(_, _, _, _)
MatchOrders(n, symbol, newPrice, st) ==
    IF n > orderIdCounter \/ st.err THEN st
    ELSE
      LET orderId == <<"order", n>>
      IN  IF orderId \notin DOMAIN st.orders THEN MatchOrders(n + 1, symbol, newPrice, st)
          ELSE
            LET order == st.orders[orderId]
            IN  IF order.symbol # symbol \/ ~ShouldExecute(order, newPrice)
                  THEN MatchOrders(n + 1, symbol, newPrice, st)
                ELSE IF order.isBuy
                  THEN MatchOrders(n + 1, symbol, newPrice,
                         [st EXCEPT !.bal = addBalance(st.bal, symbol, order.amount),
                                    !.orders = Remove(st.orders, orderId),
                                    !.filled = @ \cup {orderId}])
                ELSE IF SetThrows(st.fiat + SellProceeds(order))
                  THEN [st EXCEPT !.err = TRUE]
                ELSE MatchOrders(n + 1, symbol, newPrice,
                         [st EXCEPT !.fiat = st.fiat + SellProceeds(order),
                                    !.orders = Remove(st.orders, orderId),
                                    !.filled = @ \cup {orderId}])

onPriceUpdate(symbol, newPrice) ==
    LET liq == CheckLiquidationResult(symbol)
    IN  IF liq = "Liquidation"
          THEN LET position == shortPositions[symbol]
                   currentPrice == getPrice(symbol)
               IN  /\ fiatBalance' = fiatBalance + CloseCredit(position, currentPrice)
                   /\ shortPositions' = Remove(shortPositions, symbol)
                   /\ lastOp' = Call("onPriceUpdate", symbol, newPrice, 0, <<>>, liq,
                                     CloseFee(position, currentPrice))
                   /\ prePlace' = NoSnapshot
                   /\ UNCHANGED <<balances, prices, feeRates, pendingOrders,
                                  orderIdCounter, now, orderLog>>
        ELSE IF liq # "ok" THEN Fails("onPriceUpdate", symbol, newPrice, 0, <<>>, liq)
        ELSE
          LET st == MatchOrders(1, symbol, newPrice,
                                [fiat |-> fiatBalance, bal |-> balances,
                                 orders |-> pendingOrders, filled |-> {}, err |-> FALSE])
          IN  /\ fiatBalance' = st.fiat
              /\ balances' = st.bal
              /\ pendingOrders' = st.orders
              /\ orderLog' = [id \in DOMAIN orderLog |->
                                IF id \in st.filled
                                  THEN [orderLog[id] EXCEPT !.fate = "filled",
                                                            !.releases = @ + 1]
                                  ELSE orderLog[id]]
              /\ lastOp' = Call("onPriceUpdate", symbol, newPrice, 0, <<>>,
                                IF st.err THEN "NegativeBalance" ELSE "ok", 0)
              /\ prePlace' = NoSnapshot
              /\ UNCHANGED <<prices, feeRates, shortPositions, orderIdCounter, now>>

(* ----------------------------- fee rates ------------------------------ *)
\* mutant: each rate is checked and stored in turn, so the rates listed before
\* a negative one are already stored when it throws
setFeeRatesFieldwise(rates) ==
    /\ feeRates' = [k \in FeeKeys |->
                      IF k \in DOMAIN rates /\ rates[k] >= 0 THEN rates[k] ELSE feeRates[k]]
    /\ lastOp' = Call("setFeeRates", "", rates, 0, <<>>,
                      IF \E k \in DOMAIN rates : rates[k] < 0 THEN "InvalidRate" ELSE "ok", 0)
    /\ prePlace' = NoSnapshot
    /\ UNCHANGED <<fiatBalance, balances, prices, pendingOrders, shortPositions,
                   orderIdCounter, now, orderLog>>

setFeeRates(rates) ==
    IF \E k \in DOMAIN rates : rates[k] < 0
      THEN Fails("setFeeRates", "", rates, 0, <<>>, "InvalidRate")
    ELSE
      /\ feeRates' = [k \in FeeKeys |-> IF k \in DOMAIN rates THEN rates[k] ELSE feeRates[k]]
      /\ lastOp' = Call("setFeeRates", "", rates, 0, <<>>, "ok", 0)
      /\ prePlace' = NoSnapshot
      /\ UNCHANGED <<fiatBalance, balances, prices, pendingOrders, shortPositions,
                     orderIdCounter, now, orderLog>>

(* ------------------------- getTotalAssetValue -------------------------- *)
RECURSIVE SumOver(_, _)
SumOver(set, f) ==
    IF set = {} THEN 0
    ELSE LET x == CHOOSE y \in set : TRUE IN f[x] + SumOver(set \ {x}, f)

\* getUnrealizedPnl throws for a position whose symbol has no price, and
\* getTotalAssetValue does not catch it
TotalAssetValueThrows == \E s \in DOMAIN shortPositions : ~HasPrice(s)

\* mutant: held quantities are summed without their price
SpotValueUnpriced ==
    SumOver(Symbols, [s \in Symbols |-> balances[s] * MoneyScale])

SpotValue ==
    SumOver(Symbols, [s \in Symbols |->
        IF HasPrice(s) THEN Notional(getPrice(s), balances[s]) ELSE 0])

ShortValue ==
    SumOver(DOMAIN shortPositions, [s \in DOMAIN shortPositions |->
        shortPositions[s].margin + getUnrealizedPnl(s)])

getTotalAssetValue == fiatBalance + SpotValue + ShortValue

\* the outcome of a call of getTotalAssetValue: lastOp.a is the value returned,
\* lastOp.b tells whether the call before it was a call of it too
Valuation ==
    Call("getTotalAssetValue", "",
         IF TotalAssetValueThrows THEN 0 ELSE getTotalAssetValue,
         IF lastOp.op = "getTotalAssetValue" THEN 2 ELSE 1,
         <<>>,
         IF TotalAssetValueThrows THEN "PriceNotFound" ELSE "ok", 0)

\* mutant: the balances are drained while they are summed
DoGetTotalAssetValueDraining ==
    /\ steps < MaxSteps \/ (lastOp.op = "getTotalAssetValue" /\ lastOp.b = 1)
    /\ lastOp' = Valuation
    /\ balances' = [s \in Symbols |-> 0]
    /\ steps' = MaxSteps
    /\ prePlace' = NoSnapshot
    /\ UNCHANGED <<fiatBalance, prices, feeRates, pendingOrders, shortPositions,
                   orderIdCounter, now, orderLog>>
    /\ UNCHANGED drivers

\* A call of getTotalAssetValue.  It reads only, so the calls that can follow
\* it are those that can follow the state before it: the exploration of a run
\* ends at it, except for one more call of getTotalAssetValue right after it.
DoGetTotalAssetValue ==
    /\ steps < MaxSteps \/ (lastOp.op = "getTotalAssetValue" /\ lastOp.b = 1)
    /\ lastOp' = Valuation
    /\ steps' = MaxSteps
    /\ prePlace' = NoSnapshot
    /\ UNCHANGED <<fiatBalance, balances, prices, feeRates, pendingOrders,
                   shortPositions, orderIdCounter, now, orderLog>>
    /\ UNCHANGED drivers

\* One call.  A call that changes nothing (it throws before its first write, or
\* it has nothing to do) leaves the program where it was: every run that goes
\* on after it is a run from the state before it, so the exploration of a run
\* ends at such a call.
Step(A) ==
    /\ steps < MaxSteps
    /\ A
    /\ steps' = IF <<fiatBalance', balances', prices', feeRates', pendingOrders',
                     shortPositions', orderIdCounter', now'>>
                    = <<fiatBalance, balances, prices, feeRates, pendingOrders,
                        shortPositions, orderIdCounter, now>>
                 THEN MaxSteps ELSE steps + 1
    /\ UNCHANGED drivers

DoSetPrice == \E s \in Symbols, p \in Prices : Step(setPrice(s, p))
DoTick == Step(Tick)
DoSpotBuy == \E s \in Symbols, a \in Amounts : Step(spotBuy(s, a))
DoSpotSell == \E s \in Symbols, a \in Amounts : Step(spotSell(s, a))
DoPlaceBuyOrder ==
    \E s \in Symbols, args \in PlaceBuyArgs : Step(placeBuyOrder(s, args[1], args[2]))
DoPlaceSellOrder ==
    \E s \in Symbols, p \in LimitPrices, a \in Amounts : Step(placeSellOrder(s, p, a))
DoCancelOrder ==
    \E n \in 1..(orderIdCounter + 1) : Step(cancelOrder(<<"order", n>>))
DoOpenShort ==
    \E s \in Symbols, a \in Amounts, l \in Leverages : Step(openShort(s, a, l))
DoCloseShort == \E s \in Symbols : Step(closeShort(s))
DoCheckLiquidation == \E s \in Symbols : Step(checkLiquidation(s))
DoOnPriceUpdate == \E s \in Symbols, p \in UpdatePrices : Step(onPriceUpdate(s, p))
DoSetFeeRates == \E r \in FeeUpdates : Step(setFeeRates(r))

Next ==
    \/ DoSetPrice
    \/ DoTick
    \/ DoSpotBuy
    \/ DoSpotSell
    \/ DoPlaceBuyOrder
    \/ DoPlaceSellOrder
    \/ DoCancelOrder
    \/ DoOpenShort
    \/ DoCloseShort
    \/ DoCheckLiquidation
    \/ DoOnPriceUpdate
    \/ DoSetFeeRates
    \/ DoGetTotalAssetValue

Spec == Init /\ [][Next]_vars

(* ---------------- construction with fee rate overrides ----------------- *)
\* second argument of the constructor
FeeOverrides ==
    { EmptyMap,
      [k \in {"shortClose"} |-> -1] }

\* { ...defaults, ...feeRates }
Override(defaults, rates) ==
    [k \in FeeKeys |-> IF k \in DOMAIN rates THEN rates[k] ELSE defaults[k]]

InitOverrides ==
    /\ fiatBalance = InitialFiat * MoneyScale
    /\ balances = [s \in Symbols |-> 0]
    /\ prices \in [Symbols -> InitialPrices]
    /\ \E rates \in FeeOverrides : feeRates = Override(DefaultFeeRates, rates)
    /\ pendingOrders = EmptyMap
    /\ shortPositions = EmptyMap
    /\ orderIdCounter = 0
    /\ now = 0
    /\ steps = 0
    /\ lastOp = NoOp
    /\ orderLog = EmptyMap
    /\ prePlace = NoSnapshot
    /\ strategy = NoStrategy
    /\ microtasks = <<>>
    /\ backtest = NoBacktest

SpecOverrides == InitOverrides /\ [][Next]_vars


(* ------------------ the Wallet called directly ------------------------ *)
\* argument of new Wallet(fiatBalance), in 1/MoneyScale fiat units
WalletInitialFiat == {0, 1}

\* amounts passed to the wallet's methods
WalletAmounts == {-1, 1, 2}

\* new Wallet(fiatBalance): the map of balances is empty
InitWallet ==
    /\ fiatBalance \in WalletInitialFiat
    /\ balances = EmptyMap
    /\ prices = [s \in Symbols |-> 0]
    /\ feeRates = DefaultFeeRates
    /\ pendingOrders = EmptyMap
    /\ shortPositions = EmptyMap
    /\ orderIdCounter = 0
    /\ now = 0
    /\ steps = 0
    /\ lastOp = NoOp
    /\ orderLog = EmptyMap
    /\ prePlace = NoSnapshot
    /\ strategy = NoStrategy
    /\ microtasks = <<>>
    /\ backtest = NoBacktest

\* one call of a method of the wallet: lastOp.a is the amount passed, lastOp.b
\* the value returned
WalletCall(op, symbol, amount, returned, res) ==
    /\ steps < MaxSteps
    /\ steps' = steps + 1
    /\ lastOp' = Call(op, symbol, amount, returned, <<>>, res, 0)
    /\ UNCHANGED <<prices, feeRates, pendingOrders, shortPositions, orderIdCounter,
                   now, orderLog, prePlace>>
    /\ UNCHANGED drivers

WalletGetBalance(symbol) ==
    /\ WalletCall("getBalance", symbol, 0, getBalance(balances, symbol), "ok")
    /\ UNCHANGED <<fiatBalance, balances>>

WalletSetBalance(symbol, amount) ==
    IF SetThrows(amount)
      THEN /\ WalletCall("setBalance", symbol, amount, 0, "NegativeBalance")
           /\ UNCHANGED <<fiatBalance, balances>>
      ELSE /\ WalletCall("setBalance", symbol, amount, 0, "ok")
           /\ balances' = Put(balances, symbol, amount)
           /\ UNCHANGED fiatBalance

WalletAddBalance(symbol, amount) ==
    LET currentBalance == getBalance(balances, symbol)
    IN  IF SetThrows(currentBalance + amount)
          THEN /\ WalletCall("addBalance", symbol, amount, 0, "NegativeBalance")
               /\ UNCHANGED <<fiatBalance, balances>>
          ELSE /\ WalletCall("addBalance", symbol, amount, 0, "ok")
               /\ balances' = Put(balances, symbol, currentBalance + amount)
               /\ UNCHANGED fiatBalance

WalletSubtractBalance(symbol, amount) ==
    LET currentBalance == getBalance(balances, symbol)
    IN  IF currentBalance < amount
          THEN /\ WalletCall("subtractBalance", symbol, amount, 0, "InsufficientFunds")
               /\ UNCHANGED <<fiatBalance, balances>>
        ELSE IF SetThrows(currentBalance - amount)
          THEN /\ WalletCall("subtractBalance", symbol, amount, 0, "NegativeBalance")
               /\ UNCHANGED <<fiatBalance, balances>>
        ELSE /\ WalletCall("subtractBalance", symbol, amount, 0, "ok")
             /\ balances' = Put(balances, symbol, currentBalance - amount)
             /\ UNCHANGED fiatBalance

\* this.balances.delete(symbol)
WalletClearBalance(symbol) ==
    /\ WalletCall("clearBalance", symbol, 0, 0, "ok")
    /\ balances' = [s \in DOMAIN balances \ {symbol} |-> balances[s]]
    /\ UNCHANGED fiatBalance

\* mutant: the amount is stored without the check of its sign
WalletSetFiatBalanceUnchecked(amount) ==
    /\ WalletCall("setFiatBalance", "", amount, 0, "ok")
    /\ fiatBalance' = amount
    /\ UNCHANGED balances

WalletSetFiatBalance(amount) ==
    IF SetThrows(amount)
      THEN /\ WalletCall("setFiatBalance", "", amount, 0, "NegativeBalance")
           /\ UNCHANGED <<fiatBalance, balances>>
      ELSE /\ WalletCall("setFiatBalance", "", amount, 0, "ok")
           /\ fiatBalance' = amount
           /\ UNCHANGED balances

WalletAddFiatBalance(amount) ==
    IF SetThrows(fiatBalance + amount)
      THEN /\ WalletCall("addFiatBalance", "", amount, 0, "NegativeBalance")
           /\ UNCHANGED <<fiatBalance, balances>>
      ELSE /\ WalletCall("addFiatBalance", "", amount, 0, "ok")
           /\ fiatBalance' = fiatBalance + amount
           /\ UNCHANGED balances

WalletSubtractFiatBalance(amount) ==
    IF fiatBalance < amount
      THEN /\ WalletCall("subtractFiatBalance", "", amount, 0, "InsufficientFunds")
           /\ UNCHANGED <<fiatBalance, balances>>
    ELSE IF SetThrows(fiatBalance - amount)
      THEN /\ WalletCall("subtractFiatBalance", "", amount, 0, "NegativeBalance")
           /\ UNCHANGED <<fiatBalance, balances>>
    ELSE /\ WalletCall("subtractFiatBalance", "", amount, 0, "ok")
         /\ fiatBalance' = fiatBalance - amount
         /\ UNCHANGED balances

DoWalletGetBalance == \E s \in Symbols : WalletGetBalance(s)
DoWalletSetBalance == \E s \in Symbols, a \in WalletAmounts : WalletSetBalance(s, a)
DoWalletAddBalance == \E s \in Symbols, a \in WalletAmounts : WalletAddBalance(s, a)
DoWalletSubtractBalance ==
    \E s \in Symbols, a \in WalletAmounts : WalletSubtractBalance(s, a)
DoWalletClearBalance == \E s \in Symbols : WalletClearBalance(s)
DoWalletSetFiatBalance == \E a \in WalletAmounts : WalletSetFiatBalance(a)
DoWalletAddFiatBalance == \E a \in WalletAmounts : WalletAddFiatBalance(a)
DoWalletSubtractFiatBalance == \E a \in WalletAmounts : WalletSubtractFiatBalance(a)

NextWallet ==
    \/ DoWalletGetBalance
    \/ DoWalletSetBalance
    \/ DoWalletAddBalance
    \/ DoWalletSubtractBalance
    \/ DoWalletClearBalance
    \/ DoWalletSetFiatBalance
    \/ DoWalletAddFiatBalance
    \/ DoWalletSubtractFiatBalance

SpecWallet == InitWallet /\ [][NextWallet]_vars


(* ----------------------------- strategies ----------------------------- *)
(* DynamicHedgeGridStrategy (src/src/strategy/dynamic-hedge-grid.ts) and   *)
(* TestStrategy (src/unnamed/part_006).  The quantity unit is the 1e-8 of  *)
(* toFixed(8) and a price is the price of one unit, so that toFixed(8)     *)
(* rounds to an integer.  A synchronous stretch of code is one step for    *)
(* each call of the Exchange it makes; strategy.pc tells where the running *)
(* code stands and nothing else runs until it is "idle" again.  The code   *)
(* after an await is a continuation in the queue of microtasks.            *)
BTC_USDT == "BTC/USDT"

\* GridConfig: gridWidth (percent), gridCount, totalInvestment
GridWidthPercent == 5
GridCount == 2
TotalInvestment == 40

\* GridConfig: pricePosition, takeProfitPrice, stopLossPrice; an optional
\* price that is not configured is 0 here, falsy as undefined is
GridConfigs ==
    { [pricePosition |-> 50, takeProfitPrice |-> 40, stopLossPrice |-> 0],
      [pricePosition |-> 50, takeProfitPrice |-> 0, stopLossPrice |-> 20],
      [pricePosition |-> 100, takeProfitPrice |-> 40, stopLossPrice |-> 0] }

NoGridConfig == [pricePosition |-> 0, takeProfitPrice |-> 0, stopLossPrice |-> 0]

\* kline.open and kline.close of the candles
KlineOpens == {20, 40}
KlineCloses == {1, 20}

exchange == <<fiatBalance, balances, prices, feeRates, pendingOrders,
              shortPositions, orderIdCounter, now, lastOp, orderLog, prePlace>>

NewStrategy(kind, config) ==
    [kind |-> kind, config |-> config, hasBought |-> FALSE,
     isGridInitialized |-> FALSE, gridOrders |-> <<>>,
     pc |-> "idle",      \* "idle", "check" (checkAndCreateGrid), "place" (createGrid, step 6)
     open |-> 0,         \* kline.open of the running code
     j |-> 0,            \* index of the grid price the placement loop stands at
     sync |-> FALSE,     \* the placement loop runs inside the call of execute
     step |-> 0,         \* the call of execute the running code belongs to
     gridPrice |-> 0,    \* currentPrice of the createGrid that placed gridOrders
     closing |-> FALSE]  \* the last call of execute met an initialized grid at a
                         \* take-profit or stop-loss price

\* calculateGridLimits and createGrid steps 2-3: lowerLimit + i * gridSpacing
GridPriceAt(currentPrice, pricePosition, i) ==
    (currentPrice * (10000 - GridCount * GridWidthPercent * pricePosition
                       + 100 * i * GridWidthPercent)) \div 10000

gridPrices(currentPrice, pricePosition) ==
    { GridPriceAt(currentPrice, pricePosition, i) : i \in 0..GridCount }

sellGridPrices(currentPrice, pricePosition) ==
    { price \in gridPrices(currentPrice, pricePosition) : price > currentPrice }

buyGridPrices(currentPrice, pricePosition) ==
    { price \in gridPrices(currentPrice, pricePosition) : price < currentPrice }

\* Number((num / den).toFixed(8))
ToFixed8(num, den) == (2 * num + den) \div (2 * den)

initialBtcAmount(currentPrice, pricePosition) ==
    LET sells == Cardinality(sellGridPrices(currentPrice, pricePosition))
        buys == Cardinality(buyGridPrices(currentPrice, pricePosition))
    IN  IF sells > 0
          THEN ToFixed8(TotalInvestment * sells, (sells + buys) * currentPrice)
          ELSE 0

btcPerSellGrid(currentPrice, pricePosition) ==
    LET sells == Cardinality(sellGridPrices(currentPrice, pricePosition))
    IN  IF sells > 0
          THEN ToFixed8(initialBtcAmount(currentPrice, pricePosition), sells)
          ELSE 0

\* Number((investmentPerBuyGrid / price).toFixed(8)); investmentPerBuyGrid is
\* totalInvestment / (sells + buys) in both branches of createGrid step 4
buyAmount(currentPrice, pricePosition, price) ==
    LET sells == Cardinality(sellGridPrices(currentPrice, pricePosition))
        buys == Cardinality(buyGridPrices(currentPrice, pricePosition))
    IN  ToFixed8(TotalInvestment, (sells + buys) * price)

shouldClosePositions(config, currentPrice) ==
    \/ config.takeProfitPrice # 0 /\ currentPrice >= config.takeProfitPrice
    \/ config.stopLossPrice # 0 /\ currentPrice <= config.stopLossPrice

\* the code after an await, as it waits in the queue
Continuation(pc, orders, j, self) ==
    [pc |-> pc, orders |-> orders, j |-> j, open |-> self.open, step |-> self.step]

\* closeAllPositions from the j-th grid order on, up to its next await; an
\* error is rethrown to execute, which logs it
closeAllPositions(orders, j, self, queue) ==
    IF j <= Len(orders)
      THEN /\ cancelOrder(orders[j].orderId)
           /\ strategy' = self
           /\ microtasks' = IF lastOp'.res = "ok"
                              THEN Append(queue, Continuation("cancel", orders, j + 1, self))
                              ELSE queue
    ELSE
      LET btcBalance == getBalance(balances, BTC_USDT)
      IN  IF btcBalance > 0
            THEN /\ spotSell(BTC_USDT, btcBalance)
                 /\ strategy' = self
                 /\ microtasks' = IF lastOp'.res = "ok"
                                    THEN Append(queue, Continuation("clear", <<>>, 0, self))
                                    ELSE queue
            ELSE /\ UNCHANGED exchange
                 /\ strategy' = [self EXCEPT !.gridOrders = <<>>]
                 /\ microtasks' = Append(queue, Continuation("reset", <<>>, 0, self))

\* DynamicHedgeGridStrategy.execute up to the call of checkAndCreateGrid
execute(open, step) ==
    /\ setPrice(BTC_USDT, open)
    /\ strategy' = [strategy EXCEPT
                      !.pc = "check", !.open = open, !.step = step,
                      !.closing = strategy.isGridInitialized
                                    /\ shouldClosePositions(strategy.config, open)]

\* checkAndCreateGrid up to its return or its first await: createGrid steps
\* 1-5, or the start of closeAllPositions
checkAndCreateGrid ==
    /\ strategy.pc = "check"
    /\ UNCHANGED <<steps, backtest>>
    /\ LET currentPrice == strategy.open
           pricePosition == strategy.config.pricePosition
           initialBtc == initialBtcAmount(currentPrice, pricePosition)
       IN  IF ~strategy.isGridInitialized
             THEN IF initialBtc > 0
                    THEN /\ spotBuy(BTC_USDT, initialBtc)
                         /\ strategy' = [strategy EXCEPT !.pc = "idle",
                                                         !.isGridInitialized = TRUE]
                         /\ microtasks' =
                              IF lastOp'.res = "ok"
                                THEN Append(microtasks,
                                            Continuation("place", <<>>, 0, strategy))
                                ELSE microtasks
                    ELSE /\ UNCHANGED exchange
                         /\ strategy' = [strategy EXCEPT !.pc = "place", !.j = 0,
                                                         !.sync = TRUE,
                                                         !.gridOrders = <<>>,
                                                         !.gridPrice = currentPrice]
                         /\ UNCHANGED microtasks
           ELSE IF shouldClosePositions(strategy.config, currentPrice)
             THEN closeAllPositions(strategy.gridOrders, 1,
                                    [strategy EXCEPT !.pc = "idle"], microtasks)
           ELSE /\ UNCHANGED exchange
                /\ strategy' = [strategy EXCEPT !.pc = "idle"]
                /\ UNCHANGED microtasks

\* createGrid step 6: one turn of the loop over gridPrices.  placeBuyOrder gets
\* (symbol, amount, price), as the source passes them.
createGrid ==
    /\ strategy.pc = "place"
    /\ UNCHANGED <<steps, backtest, microtasks>>
    /\ LET currentPrice == strategy.open
           pricePosition == strategy.config.pricePosition
           price == GridPriceAt(currentPrice, pricePosition, strategy.j)
           isBuy == price < currentPrice
           amount == IF isBuy THEN buyAmount(currentPrice, pricePosition, price)
                              ELSE btcPerSellGrid(currentPrice, pricePosition)
           last == strategy.j = GridCount
           next == [strategy EXCEPT
                      !.j = IF last THEN 0 ELSE @ + 1,
                      !.pc = IF last THEN "idle" ELSE "place",
                      !.sync = IF last THEN FALSE ELSE @,
                      !.isGridInitialized = IF last /\ strategy.sync THEN TRUE ELSE @]
           pushed == [next EXCEPT
                        !.gridOrders = Append(@, [price |-> price, isBuy |-> isBuy,
                                                  orderId |-> lastOp'.id,
                                                  amount |-> amount])]
       IN  IF price = currentPrice
             THEN /\ UNCHANGED exchange
                  /\ strategy' = next
             ELSE /\ IF isBuy THEN placeBuyOrder(BTC_USDT, amount, price)
                              ELSE placeSellOrder(BTC_USDT, price, amount)
                  /\ strategy' = IF lastOp'.res = "ok" THEN pushed ELSE next

\* the first continuation of the queue runs, up to its next await
RunMicrotask ==
    /\ strategy.pc = "idle"
    /\ microtasks # <<>>
    /\ backtest.pc \in {"awaiting", "done", "rejected"}
    /\ UNCHANGED <<steps, backtest>>
    /\ LET task == Head(microtasks)
           rest == Tail(microtasks)
           self == [strategy EXCEPT !.open = task.open, !.step = task.step]
       IN  CASE task.pc = "place" ->
                  /\ UNCHANGED exchange
                  /\ strategy' = [self EXCEPT !.pc = "place", !.j = 0, !.sync = FALSE,
                                              !.gridOrders = <<>>,
                                              !.gridPrice = task.open]
                  /\ microtasks' = rest
             [] task.pc = "cancel" ->
                  closeAllPositions(task.orders, task.j, self, rest)
             [] task.pc = "clear" ->
                  /\ UNCHANGED exchange
                  /\ strategy' = [self EXCEPT !.gridOrders = <<>>]
                  /\ microtasks' = Append(rest, Continuation("reset", <<>>, 0, self))
             [] task.pc = "reset" ->
                  /\ UNCHANGED exchange
                  /\ strategy' = [self EXCEPT !.isGridInitialized = FALSE]
                  /\ microtasks' = rest

(* ------------------------------ Backtest ------------------------------ *)
Klines == [open : KlineOpens, close : KlineCloses]

\* the candles of the data file; kline.timestamp is the place in the file
Data ==
    UNION { { [i \in 1..n |-> [symbol |-> BTC_USDT, timestamp |-> i,
                               open |-> f[i].open, close |-> f[i].close]]
              : f \in [1..n -> Klines] }
            : n \in 0..MaxCandles }

Strategies ==
    {NewStrategy("test", NoGridConfig)}
      \cup { NewStrategy("grid", config) : config \in GridConfigs }

\* new Backtest(strategy, initialBalance) and run up to the loop, the data read
InitBacktest ==
    /\ fiatBalance = InitialFiat * MoneyScale
    /\ balances = [s \in Symbols |-> 0]
    /\ prices = [s \in Symbols |-> 0]
    /\ feeRates = DefaultFeeRates
    /\ pendingOrders = EmptyMap
    /\ shortPositions = EmptyMap
    /\ orderIdCounter = 0
    /\ now = 0
    /\ steps = 0
    /\ lastOp = NoOp
    /\ orderLog = EmptyMap
    /\ prePlace = NoSnapshot
    /\ strategy \in Strategies
    /\ microtasks = <<>>
    /\ \E data \in Data :
          backtest = [pc |-> IF data = <<>> THEN "done" ELSE "loop",
                      data |-> data, i |-> 1, beforeTrades |-> 0,
                      timestamps |-> <<>>, assetValues |-> <<>>,
                      totalTrades |-> 0, totalFees |-> 0,
                      executed |-> <<>>,   \* the candles execute was called with
                      resting |-> {}]      \* the orders pending when the price
                                           \* of the candle was set

\* run, lines 46-50: the price of the candle is set and the value before the
\* trades is taken
BacktestSetPrice ==
    /\ backtest.pc = "loop"
    /\ setPrice(BTC_USDT, backtest.data[backtest.i].close)
    /\ backtest' = IF TotalAssetValueThrows'
                     THEN [backtest EXCEPT !.pc = "rejected"]
                     ELSE [backtest EXCEPT !.pc = "execute",
                                           !.beforeTrades = getTotalAssetValue',
                                           !.resting = DOMAIN pendingOrders]
    /\ UNCHANGED <<steps, strategy, microtasks>>

\* run, line 53: this.strategy.execute(this.exchange, kline), not awaited
BacktestExecute ==
    /\ backtest.pc = "execute"
    /\ backtest' = [backtest EXCEPT !.pc = "record",
                                    !.executed = Append(@, backtest.i)]
    /\ IF strategy.kind = "test"
         THEN IF strategy.hasBought
                THEN UNCHANGED exchange /\ UNCHANGED strategy
                ELSE /\ spotBuy(BTC_USDT, 1)
                     /\ strategy' = [strategy EXCEPT !.hasBought = lastOp'.res = "ok"]
         ELSE execute(backtest.data[backtest.i].open, backtest.i)
    /\ UNCHANGED <<steps, microtasks>>

\* mutant: a candle whose value did not change is not recorded
BacktestRecordChanges ==
    /\ backtest.pc = "record"
    /\ strategy.pc = "idle"
    /\ LET afterTrades == getTotalAssetValue
           kline == backtest.data[backtest.i]
           changed == backtest.beforeTrades # afterTrades
       IN  backtest' =
             [backtest EXCEPT
                !.timestamps = IF changed THEN Append(@, kline.timestamp) ELSE @,
                !.assetValues = IF changed THEN Append(@, afterTrades) ELSE @,
                !.i = @ + 1,
                !.pc = IF backtest.i = Len(backtest.data) THEN "done" ELSE "loop"]
    /\ UNCHANGED exchange
    /\ UNCHANGED <<steps, strategy, microtasks>>

\* run, lines 56-72, and after the last candle the return of the result.  The
\* ratios maxDrawdown and returns of the result are left out.
BacktestRecord ==
    /\ backtest.pc = "record"
    /\ strategy.pc = "idle"
    /\ LET afterTrades == getTotalAssetValue
           kline == backtest.data[backtest.i]
           changed == backtest.beforeTrades # afterTrades
           loss == backtest.beforeTrades - afterTrades
       IN  backtest' =
             IF TotalAssetValueThrows
               THEN [backtest EXCEPT !.pc = "rejected"]
               ELSE [backtest EXCEPT
                       !.totalTrades = IF changed THEN @ + 1 ELSE @,
                       !.totalFees = IF changed /\ loss > 0 THEN @ + loss ELSE @,
                       !.timestamps = Append(@, kline.timestamp),
                       !.assetValues = Append(@, afterTrades),
                       !.i = @ + 1,
                       !.pc = IF backtest.i = Len(backtest.data)
                                THEN "done" ELSE "loop"]
    /\ UNCHANGED exchange
    /\ UNCHANGED <<steps, strategy, microtasks>>

NextBacktest ==
    \/ BacktestSetPrice
    \/ BacktestExecute
    \/ BacktestRecord
    \/ checkAndCreateGrid
    \/ createGrid
    \/ RunMicrotask

\* the loop of run has no await, and the microtasks run when it has returned
SpecBacktest == InitBacktest /\ [][NextBacktest]_vars /\ WF_vars(NextBacktest)

(* ------------- the grid strategy called with await -------------------- *)
\* a caller that awaits each call of execute, as the tests of the strategy do,
\* and that reports prices to the Exchange in between
InitGrid ==
    /\ fiatBalance = InitialFiat * MoneyScale
    /\ balances = [s \in Symbols |-> 0]
    /\ prices = [s \in Symbols |-> 0]
    /\ feeRates = DefaultFeeRates
    /\ pendingOrders = EmptyMap
    /\ shortPositions = EmptyMap
    /\ orderIdCounter = 0
    /\ now = 0
    /\ steps = 0
    /\ lastOp = NoOp
    /\ orderLog = EmptyMap
    /\ prePlace = NoSnapshot
    /\ \E config \in GridConfigs : strategy = NewStrategy("grid", config)
    /\ microtasks = <<>>
    /\ backtest = [pc |-> "awaiting"]

AwaitExecute(open) ==
    /\ steps < MaxSteps
    /\ strategy.pc = "idle"
    /\ microtasks = <<>>
    /\ execute(open, steps + 1)
    /\ steps' = steps + 1
    /\ UNCHANGED <<microtasks, backtest>>

ReportPrice(newPrice) ==
    /\ steps < MaxSteps
    /\ strategy.pc = "idle"
    /\ microtasks = <<>>
    /\ onPriceUpdate(BTC_USDT, newPrice)
    /\ strategy' = [strategy EXCEPT !.closing = FALSE]
    /\ steps' = steps + 1
    /\ UNCHANGED <<microtasks, backtest>>

DoAwaitExecute == \E open \in KlineOpens : AwaitExecute(open)
DoReportPrice == \E newPrice \in UpdatePrices : ReportPrice(newPrice)

NextGrid ==
    \/ DoAwaitExecute
    \/ DoReportPrice
    \/ checkAndCreateGrid
    \/ createGrid
    \/ RunMicrotask

SpecGrid == InitGrid /\ [][NextGrid]_vars

(* ============================== claims ================================= *)
Ok(op) == lastOp.op = op /\ lastOp.res = "ok"

IssuedIds == { <<"order", n>> : n \in 1..orderIdCounter }

\* C1: in every reachable state the free fiat balance and every instrument
\* balance are >= 0, whatever calls were made and whether they failed.
C1_NonNegativeBalances ==
    /\ fiatBalance >= 0
    /\ \A s \in Symbols : balances[s] >= 0

\* closeShort was refused because its settlement would have driven the fiat
\* balance below zero
C1_Witness ==
    /\ lastOp.op = "closeShort"
    /\ lastOp.res = "NegativeBalance"
    /\ fiatBalance < InitialFiat * MoneyScale

\* C2: every issued order is pending, cancelled or filled; once it has left
\* the pending set it has been released exactly once, it never becomes pending
\* again, it is never filled or cancelled a second time, and cancelOrder on it
\* fails with NotFound.
C2_Fates ==
    /\ DOMAIN orderLog = IssuedIds
    /\ DOMAIN pendingOrders \subseteq IssuedIds
    /\ \A id \in IssuedIds :
          /\ orderLog[id].fate \in {"pending", "cancelled", "filled"}
          /\ (orderLog[id].fate = "pending") = (id \in DOMAIN pendingOrders)
          /\ orderLog[id].releases = IF orderLog[id].fate = "pending" THEN 0 ELSE 1

C2_Final ==
    \A id \in IssuedIds :
        orderLog[id].fate # "pending" =>
            /\ orderLog'[id] = orderLog[id]
            /\ id \notin DOMAIN pendingOrders'
            /\ (lastOp'.op = "cancelOrder" /\ lastOp'.id = id /\ steps' # steps
                    => lastOp'.res = "NotFound")

C2_ReleasedExactlyOnce == []C2_Fates /\ [][C2_Final]_vars

\* an order was cancelled, and a later onPriceUpdate on its symbol came at a
\* price at which it would have filled
C2_Witness ==
    /\ Ok("onPriceUpdate")
    /\ \E id \in IssuedIds :
          /\ orderLog[id].fate = "cancelled"
          /\ orderLog[id].releases = 1
          /\ orderLog[id].order.symbol = lastOp.sym
          /\ ShouldExecute(orderLog[id].order, lastOp.a)

\* C3: cancelOrder hands back exactly what the placement froze: for a buy
\* order the fiat placeBuyOrder debited, for a sell order the quantity
\* placeSellOrder froze, whatever happened in between.
C3_CancelRefundsFrozen ==
    \A id \in IssuedIds :
        orderLog[id].fate = "cancelled" =>
            /\ orderLog[id].refundFiat = orderLog[id].frozenFiat
            /\ orderLog[id].refundQty = orderLog[id].frozenQty

C5_Step ==
    lastOp'.op = "spotBuy" /\ steps' # steps =>
        LET symbol == lastOp'.sym
            amount == lastOp'.a
            need == prices[symbol] * amount * (MoneyScale + feeRates["spotBuy"])
        IN  /\ (amount <= 0 \/ (HasPrice(symbol) /\ fiatBalance < need))
                => lastOp'.res # "ok"
            /\ lastOp'.res # "ok" =>
                /\ UNCHANGED <<fiatBalance, balances, pendingOrders, shortPositions>>
                /\ getTotalAssetValue' = getTotalAssetValue
                /\ TotalAssetValueThrows' = TotalAssetValueThrows

C5_SpotBuyAtomic == [][C5_Step]_vars

C5_Witness ==
    /\ lastOp.op = "spotBuy"
    /\ lastOp.res = "InsufficientFunds"
    /\ \E s \in Symbols : balances[s] > 0

\* C6: a successful spotBuy(symbol, amount) at price p takes exactly
\* p * amount + p * amount * spotBuyRate from the fiat balance, adds exactly
\* amount to the balance of symbol, and changes nothing else.
C6_Step ==
    lastOp'.op = "spotBuy" /\ lastOp'.res = "ok" /\ steps' # steps =>
        LET symbol == lastOp'.sym
            amount == lastOp'.a
            p == prices[symbol]
        IN  /\ fiatBalance' = fiatBalance
                  - (p * amount * MoneyScale + p * amount * feeRates["spotBuy"])
            /\ balances' = [balances EXCEPT ![symbol] = @ + amount]
            /\ UNCHANGED <<pendingOrders, shortPositions>>

C6_SpotBuyEffect == [][C6_Step]_vars

C6_Witness ==
    /\ Ok("spotBuy")
    /\ balances[lastOp.sym] >= lastOp.a
    /\ fiatBalance < InitialFiat * MoneyScale

\* C7: spotSell fails without any change when amount <= 0 or the balance of
\* symbol is below amount; otherwise, at price p, it takes exactly amount from
\* the balance of symbol and adds exactly p * amount - p * amount * spotSellRate
\* to the fiat balance.
C7_Step ==
    lastOp'.op = "spotSell" /\ steps' # steps =>
        LET symbol == lastOp'.sym
            amount == lastOp'.a
            p == prices[symbol]
        IN  /\ (amount <= 0 \/ balances[symbol] < amount) =>
                /\ lastOp'.res # "ok"
                /\ UNCHANGED <<fiatBalance, balances, pendingOrders, shortPositions>>
            /\ (amount > 0 /\ balances[symbol] >= amount /\ HasPrice(symbol)) =>
                /\ lastOp'.res = "ok"
                /\ balances' = [balances EXCEPT ![symbol] = @ - amount]
                /\ fiatBalance' = fiatBalance
                      + (p * amount * MoneyScale - p * amount * feeRates["spotSell"])
                /\ UNCHANGED <<pendingOrders, shortPositions>>

C7_SpotSell == [][C7_Step]_vars

C7_Witness ==
    /\ Ok("spotSell")
    /\ fiatBalance > 0
    /\ balances[lastOp.sym] = 0

\* C8: with the price unchanged, every successful spotBuy or spotSell lowers
\* the total asset value by exactly the fee it charged, so a sequence of them
\* lowers it by the sum of their fees.
C8_Step ==
    /\ lastOp'.op \in {"spotBuy", "spotSell"}
    /\ lastOp'.res = "ok"
    /\ steps' # steps
    /\ ~TotalAssetValueThrows
    => LET rate == IF lastOp'.op = "spotBuy" THEN feeRates["spotBuy"]
                   ELSE feeRates["spotSell"]
           fee == prices[lastOp'.sym] * lastOp'.a * rate
       IN  /\ ~TotalAssetValueThrows'
           /\ getTotalAssetValue' = getTotalAssetValue - fee

C8_SpotConservation == [][C8_Step]_vars

\* a buy followed by a sell: the value is the initial one less both fees
C8_Witness ==
    /\ Ok("spotSell")
    /\ lastOp.fee > 0
    /\ ~TotalAssetValueThrows
    /\ getTotalAssetValue < InitialFiat * MoneyScale

\* C9: placeBuyOrder with limit price P and quantity A fails without any
\* change when P <= 0, A <= 0 or the fiat balance is below
\* P * A * (1 + limitBuyRate); on success it takes exactly
\* P * A + P * A * limitBuyRate from the fiat balance, leaves the instrument
\* balances alone and adds exactly one pending buy order, which records that
\* frozen total.
C9_Step ==
    lastOp'.op = "placeBuyOrder" /\ steps' # steps =>
        LET frozen == lastOp'.a * lastOp'.b * (MoneyScale + feeRates["limitBuy"])
        IN  /\ (lastOp'.a <= 0 \/ lastOp'.b <= 0 \/ fiatBalance < frozen) =>
                /\ lastOp'.res # "ok"
                /\ UNCHANGED <<fiatBalance, balances, pendingOrders, shortPositions>>
            /\ lastOp'.res = "ok" =>
                /\ fiatBalance' = fiatBalance - frozen
                /\ balances' = balances
                /\ DOMAIN pendingOrders' = DOMAIN pendingOrders \cup {lastOp'.id}
                /\ lastOp'.id \notin DOMAIN pendingOrders
                /\ \A id \in DOMAIN pendingOrders : pendingOrders'[id] = pendingOrders[id]
                /\ pendingOrders'[lastOp'.id].isBuy
                /\ pendingOrders'[lastOp'.id].totalCostWithFee = frozen

C9_PlaceBuyOrder == [][C9_Step]_vars

\* C10: the order created by placeBuyOrder(symbol, amount, price) has the
\* third argument as its limit price and the second as its quantity; the order
\* created by placeSellOrder(symbol, price, amount) has the second argument
\* as its limit price and the third as its quantity.
C10_OrderFields ==
    /\ Ok("placeBuyOrder") =>
          /\ pendingOrders[lastOp.id].amount = lastOp.a
          /\ pendingOrders[lastOp.id].price = lastOp.b
    /\ Ok("placeSellOrder") =>
          /\ pendingOrders[lastOp.id].price = lastOp.a
          /\ pendingOrders[lastOp.id].amount = lastOp.b

\* C11: placeSellOrder(symbol, price, amount) fails without any change when
\* price <= 0, amount <= 0 or the balance of symbol is below amount; otherwise
\* it takes exactly amount from the balance of symbol, leaves the fiat balance
\* alone (no fee at placement) and adds exactly one pending sell order.
C11_Step ==
    lastOp'.op = "placeSellOrder" /\ steps' # steps =>
        LET symbol == lastOp'.sym
            price == lastOp'.a
            amount == lastOp'.b
            id == lastOp'.id
        IN  IF price <= 0 \/ amount <= 0 \/ balances[symbol] < amount
              THEN /\ lastOp'.res # "ok"
                   /\ UNCHANGED <<fiatBalance, balances, pendingOrders, shortPositions>>
              ELSE /\ lastOp'.res = "ok"
                   /\ balances' = [balances EXCEPT ![symbol] = @ - amount]
                   /\ UNCHANGED <<fiatBalance, shortPositions>>
                   /\ id \notin DOMAIN pendingOrders
                   /\ DOMAIN pendingOrders' = DOMAIN pendingOrders \cup {id}
                   /\ \A o \in DOMAIN pendingOrders : pendingOrders'[o] = pendingOrders[o]
                   /\ ~pendingOrders'[id].isBuy
                   /\ pendingOrders'[id].symbol = symbol

C11_PlaceSellOrder == [][C11_Step]_vars

\* the whole holding of an instrument was frozen by a sell order
C11_Witness ==
    /\ Ok("placeSellOrder")
    /\ balances[lastOp.sym] = 0
    /\ lastOp.id \in DOMAIN pendingOrders
    /\ orderLog[lastOp.id].frozenQty = lastOp.b
    /\ lastOp.b > 0

\* C12: cancelOrder on an id that is not pending (never issued, already
\* cancelled or already filled) fails with NotFound and leaves the fiat
\* balance, the instrument balances and the pending orders as they were; on a
\* pending id it removes that order and no other.
C12_Step ==
    lastOp'.op = "cancelOrder" /\ steps' # steps =>
        LET id == lastOp'.id
        IN  IF id \notin DOMAIN pendingOrders
              THEN /\ lastOp'.res = "NotFound"
                   /\ UNCHANGED <<fiatBalance, balances, pendingOrders>>
              ELSE /\ lastOp'.res = "ok"
                   /\ DOMAIN pendingOrders' = DOMAIN pendingOrders \ {id}
                   /\ \A o \in DOMAIN pendingOrders' : pendingOrders'[o] = pendingOrders[o]

C12_CancelOrder == [][C12_Step]_vars

\* cancelOrder was refused for an order that had been filled
C12_Witness ==
    /\ lastOp.op = "cancelOrder"
    /\ lastOp.res = "NotFound"
    /\ lastOp.id \in IssuedIds
    /\ orderLog[lastOp.id].fate = "filled"

\* C13: the id a successful placeBuyOrder or placeSellOrder returns differs
\* from every id returned before, also when earlier orders were cancelled or
\* filled; it is order_N, with N above the N of every earlier id.
C13_Step ==
    /\ lastOp'.op \in {"placeBuyOrder", "placeSellOrder"}
    /\ lastOp'.res = "ok"
    /\ steps' # steps
    => /\ lastOp'.id \notin DOMAIN orderLog
       /\ lastOp'.id \notin DOMAIN pendingOrders
       /\ lastOp'.id[1] = "order"
       /\ \A id \in DOMAIN orderLog : id[2] < lastOp'.id[2]
       /\ DOMAIN orderLog' = DOMAIN orderLog \cup {lastOp'.id}

C13_UniqueOrderIds == [][C13_Step]_vars

\* an order was placed after an earlier one had been cancelled or filled
C13_Witness ==
    /\ lastOp.op \in {"placeBuyOrder", "placeSellOrder"}
    /\ lastOp.res = "ok"
    /\ lastOp.id[2] >= 2
    /\ \E id \in DOMAIN orderLog : orderLog[id].fate # "pending"

\* the fill condition of an order at newPrice
Crossed(order, newPrice) ==
    \/ order.isBuy /\ newPrice <= order.price
    \/ ~order.isBuy /\ newPrice >= order.price

\* onPriceUpdate returned, or raised the Liquidation signal
Completed(res) == res \in {"ok", "Liquidation"}

\* C14: onPriceUpdate(symbol, newPrice) fills, in that one call, exactly the
\* pending orders on symbol whose fill condition holds (buy: newPrice <= limit
\* price, sell: newPrice >= limit price) and leaves every other order pending
\* and unchanged: the orders on other symbols and those not crossed.
C14_Step ==
    lastOp'.op = "onPriceUpdate" /\ Completed(lastOp'.res) /\ steps' # steps =>
        /\ DOMAIN pendingOrders' \subseteq DOMAIN pendingOrders
        /\ \A id \in DOMAIN pendingOrders :
              LET order == pendingOrders[id]
              IN  IF order.symbol = lastOp'.sym /\ Crossed(order, lastOp'.a)
                    THEN id \notin DOMAIN pendingOrders'
                    ELSE id \in DOMAIN pendingOrders' /\ pendingOrders'[id] = order

C14_FillsExactlyCrossed == [][C14_Step]_vars

\* C15: onPriceUpdate(symbol, newPrice) checks liquidation first and then, in
\* the same call, matches the pending orders on symbol, also when the check
\* closed the position: after the call no pending order on symbol whose fill
\* condition holds at newPrice is left.
C15_MatchingAfterLiquidation ==
    lastOp.op = "onPriceUpdate" /\ Completed(lastOp.res) =>
        \A id \in DOMAIN pendingOrders :
            ~(pendingOrders[id].symbol = lastOp.sym /\ Crossed(pendingOrders[id], lastOp.a))

\* the orders an onPriceUpdate step took out of the pending set
FilledBy(before, after) == DOMAIN before \ DOMAIN after

\* C16: a fill in onPriceUpdate settles as follows: a filled buy order of
\* quantity A adds exactly A to the balance of its symbol and does not touch
\* the fiat balance; a filled sell order with limit price P and quantity A adds
\* exactly P * A - P * A * limitSellRate to the fiat balance, computed at P and
\* not at newPrice, and does not touch the instrument balance.
C16_Step ==
    /\ lastOp'.op = "onPriceUpdate"
    /\ steps' # steps
    /\ FilledBy(pendingOrders, pendingOrders') # {}
    => LET filled == FilledBy(pendingOrders, pendingOrders')
           buys == { id \in filled : pendingOrders[id].isBuy }
           sells == filled \ buys
       IN  /\ fiatBalance' = fiatBalance
                + SumOver(sells, [id \in sells |->
                      pendingOrders[id].price * pendingOrders[id].amount * MoneyScale
                        - pendingOrders[id].price * pendingOrders[id].amount
                            * feeRates["limitSell"]])
           /\ \A s \in Symbols :
                  balances'[s] = balances[s]
                    + SumOver({ id \in buys : pendingOrders[id].symbol = s },
                              [id \in buys |-> pendingOrders[id].amount])

C16_FillSettlement == [][C16_Step]_vars

\* a sell order was filled by a price above its limit price
C16_Witness ==
    /\ Ok("onPriceUpdate")
    /\ fiatBalance > 0
    /\ \E id \in DOMAIN orderLog :
          /\ orderLog[id].fate = "filled"
          /\ ~orderLog[id].order.isBuy
          /\ orderLog[id].order.symbol = lastOp.sym
          /\ orderLog[id].order.price < lastOp.a

\* a call on symbol that closed its position: closeShort, or a liquidation
Closes(call, symbol) ==
    /\ call.sym = symbol
    /\ \/ call.op = "closeShort" /\ call.res = "ok"
       \/ call.op \in {"checkLiquidation", "onPriceUpdate"} /\ call.res = "Liquidation"

Opens(call, symbol) == call.op = "openShort" /\ call.res = "ok" /\ call.sym = symbol

\* C17: there is at most one short position per symbol, kept under its symbol.
\* A position appears only by a successful openShort on its symbol, changes
\* only by a further successful openShort on it, which adds to it instead of
\* creating a second one, and disappears only by a successful closeShort or a
\* liquidation of that symbol (absent -> open -> open (merged) -> absent).
C17_Inv ==
    \A s \in DOMAIN shortPositions :
        /\ s \in Symbols
        /\ shortPositions[s].symbol = s
        /\ shortPositions[s].amount > 0

C17_Step ==
    \A s \in Symbols :
        LET was == s \in DOMAIN shortPositions
            is == s \in DOMAIN shortPositions'
        IN  /\ (~was /\ is) => Opens(lastOp', s)
            /\ (was /\ ~is) => Closes(lastOp', s)
            /\ (was /\ is /\ shortPositions'[s] # shortPositions[s]) =>
                  /\ Opens(lastOp', s)
                  /\ shortPositions'[s].amount = shortPositions[s].amount + lastOp'.a
            /\ (steps' # steps /\ Opens(lastOp', s)) => is
            /\ (steps' # steps /\ Closes(lastOp', s)) => (was /\ ~is)

C18_Step ==
    \A s \in Symbols :
        /\ steps' # steps
        /\ Opens(lastOp', s)
        /\ s \in DOMAIN shortPositions
        => LET old == shortPositions[s]
               new == shortPositions'[s]
               b == lastOp'.a
               L2 == lastOp'.b
               P2 == prices[s]
           IN  /\ new.amount = old.amount + b
               \* new.entry * (a + b) = a * old.entry + b * P2
               /\ new.entryNum * (old.amount + b) * old.entryDen
                     = (old.amount * old.entryNum + b * P2 * old.entryDen) * new.entryDen
               /\ new.entryDen > 0
               /\ (new.margin - old.margin) * L2 = P2 * b * MoneyScale
               /\ new.leverage = old.leverage
               /\ new.timestamp = old.timestamp
               /\ new.symbol = s

C18_MergeShort == [][C18_Step]_vars

\* a later open at another price and another leverage was merged
C18_Witness ==
    /\ Ok("openShort")
    /\ shortPositions[lastOp.sym].amount >= 2
    /\ shortPositions[lastOp.sym].entryDen > 1
    /\ shortPositions[lastOp.sym].leverage # lastOp.b
    /\ shortPositions[lastOp.sym].timestamp < now

\* C19: openShort(symbol, amount, leverage) fails without any change when
\* amount <= 0, when leverage < 1 or when the fiat balance is below
\* price * amount / leverage + price * amount * shortOpenRate; when it
\* succeeds it takes exactly that margin plus fee from the fiat balance.
C19_Step ==
    lastOp'.op = "openShort" /\ steps' # steps =>
        LET s == lastOp'.sym
            amount == lastOp'.a
            leverage == lastOp'.b
            p == prices[s]
            \* (margin + fee) * leverage
            needTimesL == p * amount * MoneyScale
                            + p * amount * feeRates["shortOpen"] * leverage
        IN  /\ (amount <= 0 \/ leverage < 1
                  \/ (HasPrice(s) /\ fiatBalance * leverage < needTimesL))
                => lastOp'.res # "ok"
            /\ lastOp'.res # "ok" =>
                  UNCHANGED <<fiatBalance, balances, pendingOrders, shortPositions>>
            /\ lastOp'.res = "ok" =>
                  /\ (fiatBalance - fiatBalance') * leverage = needTimesL
                  /\ UNCHANGED <<balances, pendingOrders>>
            /\ (amount > 0 /\ leverage >= 1 /\ HasPrice(s)
                  /\ fiatBalance * leverage >= needTimesL)
                => lastOp'.res = "ok"

C19_OpenShort == [][C19_Step]_vars

\* an openShort was refused for lack of margin while a position is open
C19_Witness ==
    /\ lastOp.op = "openShort"
    /\ lastOp.res = "InsufficientMargin"
    /\ shortPositions # EmptyMap

\* C20: closeShort(symbol) on a symbol with a position (quantity q, entry
\* price e, margin m) and an oracle price p adds exactly
\* m + (e - p) * q - p * q * shortCloseRate to the fiat balance and deletes the
\* position; without a position it fails with NotFound and changes nothing.
C20_Step ==
    lastOp'.op = "closeShort" /\ steps' # steps =>
        LET s == lastOp'.sym
            p == prices[s]
        IN  IF s \notin DOMAIN shortPositions
              THEN /\ lastOp'.res = "NotFound"
                   /\ UNCHANGED <<fiatBalance, balances, pendingOrders, shortPositions>>
              ELSE HasPrice(s) =>
                   LET pos == shortPositions[s]
                   IN  /\ lastOp'.res = "ok"
                       /\ (fiatBalance' - fiatBalance) * pos.entryDen
                            = (pos.margin - p * pos.amount * MoneyScale
                                 - p * pos.amount * feeRates["shortClose"]) * pos.entryDen
                              + pos.entryNum * pos.amount * MoneyScale
                       /\ s \notin DOMAIN shortPositions'

C20_CloseShort == [][C20_Step]_vars

\* (margin + (entry - p) * quantity) / (p * quantity) < 0.05, for p > 0, with
\* the margin in 1/MoneyScale fiat units and the entry price a fraction
BelowMaintenance(pos, p) ==
    (pos.margin * pos.entryDen
        + (pos.entryNum * pos.amount - p * pos.amount * pos.entryDen) * MoneyScale) * 20
      < p * pos.amount * MoneyScale * pos.entryDen

\* the fiat balance changes from before to after by the settlement of closeShort
\* on pos at price p: margin + (entry - p) * quantity - p * quantity * rate
SettledClose(before, after, pos, p, rate) ==
    (after - before) * pos.entryDen
      = (pos.margin - p * pos.amount * MoneyScale - p * pos.amount * rate) * pos.entryDen
          + pos.entryNum * pos.amount * MoneyScale

\* C21: checkLiquidation(symbol) on a position with margin M, quantity q and
\* entry price P0 at the current price P closes the position if and only if
\* (M + (P0 - P) * q) / (P * q) < 0.05, after which the symbol has no
\* position; when the ratio is >= 0.05 or there is no position the call
\* changes nothing.
C21_Step ==
    lastOp'.op = "checkLiquidation" /\ steps' # steps =>
        LET s == lastOp'.sym
        IN  IF s \notin DOMAIN shortPositions
              THEN UNCHANGED <<fiatBalance, balances, pendingOrders, shortPositions>>
              ELSE HasPrice(s) =>
                   IF BelowMaintenance(shortPositions[s], prices[s])
                     THEN s \notin DOMAIN shortPositions'
                     ELSE UNCHANGED <<fiatBalance, balances, pendingOrders, shortPositions>>

C21_LiquidationIff == [][C21_Step]_vars

\* C22: when checkLiquidation, called directly or by onPriceUpdate, closes a
\* position, the call ends with the Liquidation error, and only then; when the
\* error is raised the position is gone and the fiat balance has received
\* margin + pnl - close fee, the settlement of closeShort.
C22_Step ==
    lastOp'.op \in {"checkLiquidation", "onPriceUpdate"} /\ steps' # steps =>
        LET s == lastOp'.sym
            closed == DOMAIN shortPositions \ DOMAIN shortPositions'
        IN  /\ closed # {} <=> lastOp'.res = "Liquidation"
            /\ lastOp'.res = "Liquidation" =>
                  /\ closed = {s}
                  /\ HasPrice(s)
                  /\ SettledClose(fiatBalance, fiatBalance', shortPositions[s],
                                  prices[s], feeRates["shortClose"])
                  /\ \A o \in DOMAIN shortPositions' :
                        shortPositions'[o] = shortPositions[o]

PendingValue ==
    SumOver(DOMAIN pendingOrders, [id \in DOMAIN pendingOrders |->
        IF pendingOrders[id].isBuy THEN orderLog[id].frozenFiat
        ELSE IF HasPrice(pendingOrders[id].symbol)
          THEN prices[pendingOrders[id].symbol] * pendingOrders[id].amount * MoneyScale
        ELSE 0])

HeldValue ==
    SumOver(Symbols, [s \in Symbols |->
        IF HasPrice(s) THEN prices[s] * balances[s] * MoneyScale ELSE 0])

PositionsValue ==
    SumOver({ s \in DOMAIN shortPositions : HasPrice(s) },
            [s \in DOMAIN shortPositions |->
                shortPositions[s].margin
                  + ((shortPositions[s].entryNum * shortPositions[s].amount)
                        \div shortPositions[s].entryDen
                     - prices[s] * shortPositions[s].amount) * MoneyScale])

\* C23: the value getTotalAssetValue returns is the fiat balance + the held
\* quantities at their current price + the pending orders (a buy order its
\* frozen total, a sell order its frozen quantity at the current price) + the
\* short positions (margin + unrealized profit).
C23_TotalAssetValue ==
    lastOp.op = "getTotalAssetValue" /\ lastOp.res = "ok" =>
        lastOp.a = fiatBalance + HeldValue + PendingValue + PositionsValue

\* C24: a successful placeBuyOrder, placeSellOrder or cancelOrder leaves the
\* total asset value as it was before the call (the oracle price is not
\* changed by these calls).
C24_Step ==
    /\ lastOp'.op \in {"placeBuyOrder", "placeSellOrder", "cancelOrder"}
    /\ lastOp'.res = "ok"
    /\ steps' # steps
    /\ ~TotalAssetValueThrows
    => /\ ~TotalAssetValueThrows'
       /\ getTotalAssetValue' = getTotalAssetValue

C24_PlacementKeepsValue == [][C24_Step]_vars

\* C25: a call of getTotalAssetValue changes neither the fiat balance, the
\* instrument balances, the pending orders, the short positions nor the fee
\* rates, and a call that directly follows another returns what that one
\* returned.
C25_Step ==
    lastOp'.op = "getTotalAssetValue" =>
        /\ UNCHANGED <<fiatBalance, balances, pendingOrders, shortPositions, feeRates,
                       prices, orderIdCounter>>
        /\ lastOp.op = "getTotalAssetValue" =>
              /\ lastOp'.a = lastOp.a
              /\ lastOp'.res = lastOp.res

C25_ValuationPure == [][C25_Step]_vars

\* a second call in a row, with instruments held, an order pending and a
\* position open
C25_Witness ==
    /\ lastOp.op = "getTotalAssetValue"
    /\ lastOp.res = "ok"
    /\ lastOp.b = 2
    /\ \E s \in Symbols : balances[s] > 0
    /\ pendingOrders # EmptyMap
    /\ shortPositions # EmptyMap

\* C26: getTotalAssetValue returns a value in every reachable state; a symbol
\* without a price that is held, ordered or shorted (its price never set, or
\* overwritten with 0) is skipped.
C26_ValuationNeverRaises ==
    lastOp.op = "getTotalAssetValue" => lastOp.res = "ok"

\* C27: with the oracle price unchanged, a successful openShort lowers the
\* total asset value by exactly price * amount * shortOpenRate, and a
\* successful closeShort lowers it by exactly
\* currentPrice * quantity * shortCloseRate.
C27_Step ==
    /\ lastOp'.op \in {"openShort", "closeShort"}
    /\ lastOp'.res = "ok"
    /\ steps' # steps
    /\ ~TotalAssetValueThrows
    => LET s == lastOp'.sym
           fee == IF lastOp'.op = "openShort"
                    THEN prices[s] * lastOp'.a * feeRates["shortOpen"]
                    ELSE prices[s] * shortPositions[s].amount * feeRates["shortClose"]
       IN  /\ ~TotalAssetValueThrows'
           /\ getTotalAssetValue' = getTotalAssetValue - fee

C27_ShortFees == [][C27_Step]_vars

\* a position was closed below its entry price, with a profit above the fees
C27_Witness ==
    /\ Ok("closeShort")
    /\ lastOp.fee > 0
    /\ ~TotalAssetValueThrows
    /\ pendingOrders = EmptyMap
    /\ \A s \in Symbols : balances[s] = 0
    /\ shortPositions = EmptyMap
    /\ fiatBalance > InitialFiat * MoneyScale

\* C28: setFeeRates(rates) with a negative rate anywhere in rates fails with
\* InvalidRate and leaves all six rates as they were, also those listed before
\* the negative one; with no negative rate it stores exactly the rates given
\* and leaves the others as they were.
C28_Step ==
    lastOp'.op = "setFeeRates" /\ steps' # steps =>
        LET rates == lastOp'.a
        IN  IF \E k \in DOMAIN rates : rates[k] < 0
              THEN /\ lastOp'.res = "InvalidRate"
                   /\ feeRates' = feeRates
              ELSE /\ lastOp'.res = "ok"
                   /\ DOMAIN feeRates' = FeeKeys
                   /\ \A k \in FeeKeys :
                         feeRates'[k] = IF k \in DOMAIN rates THEN rates[k] ELSE feeRates[k]

C28_SetFeeRates == [][C28_Step]_vars

\* a batch with a valid rate listed before a negative one was rejected, after
\* an earlier batch had been stored
C28_Witness ==
    /\ lastOp.op = "setFeeRates"
    /\ lastOp.res = "InvalidRate"
    /\ \E k \in DOMAIN lastOp.a : lastOp.a[k] >= 0 /\ feeRates[k] # lastOp.a[k]
    /\ feeRates # DefaultFeeRates

\* C29: in every reachable state, the state right after a construction with
\* fee rate overrides included, each of the six fee rates is >= 0.
C29_FeeRatesNonNegative ==
    \A k \in FeeKeys : feeRates[k] >= 0

\* C30: setPrice(symbol, p) never fails, and after it getPrice(symbol) returns
\* p, the price set last; the prices of the other symbols are as before, and
\* nothing but setPrice changes a price.
C30_Step ==
    \A s \in Symbols :
        IF lastOp'.op = "setPrice" /\ lastOp'.sym = s /\ steps' # steps
          THEN /\ lastOp'.res = "ok"
               /\ HasPrice(s)'
               /\ getPrice(s)' = lastOp'.a
          ELSE prices'[s] = prices[s]

C30_PriceOracle == [][C30_Step]_vars

\* C35: for every open short position margin * leverage = entryPrice *
\* quantity, after the first open and after every merge, whatever leverage the
\* merging call passes.
C35_MarginTimesLeverage ==
    \A s \in DOMAIN shortPositions :
        LET pos == shortPositions[s]
        IN  pos.margin * pos.leverage * pos.entryDen
              = pos.entryNum * pos.amount * MoneyScale

\* C36: with the oracle prices held constant, fee rates >= 0 and onPriceUpdate
\* called with the oracle price only, no spot trade, placement, cancellation,
\* fill, opening or closing of a short makes the total asset value larger than
\* it was: no call of these raises it.
C36_Step ==
    /\ lastOp'.op \in {"spotBuy", "spotSell", "placeBuyOrder", "placeSellOrder",
                       "cancelOrder", "onPriceUpdate", "openShort", "closeShort",
                       "checkLiquidation"}
    /\ steps' # steps
    /\ lastOp'.op = "onPriceUpdate" => lastOp'.a = prices[lastOp'.sym]
    /\ \A k \in FeeKeys : feeRates[k] >= 0
    /\ ~TotalAssetValueThrows
    => /\ ~TotalAssetValueThrows'
       /\ getTotalAssetValue' <= getTotalAssetValue

C36_NoFreeMoney == [][C36_Step]_vars

\* C37: onPriceUpdate(symbol, newPrice) liquidates the position on symbol if
\* and only if its equity ratio at newPrice is below 5%, whether or not the
\* oracle price of symbol has been set to newPrice.
C37_Step ==
    /\ lastOp'.op = "onPriceUpdate"
    /\ steps' # steps
    /\ lastOp'.sym \in DOMAIN shortPositions
    => (lastOp'.sym \notin DOMAIN shortPositions'
          <=> BelowMaintenance(shortPositions[lastOp'.sym], lastOp'.a))

C37_LiquidationAtNewPrice == [][C37_Step]_vars

\* C31: subtractFiatBalance and subtractBalance with an amount above the
\* current balance fail and leave the balance as it was; setFiatBalance and
\* setBalance with a negative amount fail and leave it as it was; getBalance
\* never fails, and it returns 0 for a symbol that is not in the map.
C31_Step ==
    LET op == lastOp'.op
        amount == lastOp'.a
        symbol == lastOp'.sym
        refused == lastOp'.res # "ok" /\ UNCHANGED <<fiatBalance, balances>>
    IN  steps' = steps + 1 =>
          /\ op = "subtractFiatBalance" /\ amount > fiatBalance => refused
          /\ op = "subtractBalance" /\ amount > getBalance(balances, symbol)
                => refused
          /\ op \in {"setFiatBalance", "setBalance"} /\ amount < 0 => refused
          /\ op = "getBalance" =>
                /\ lastOp'.res = "ok"
                /\ UNCHANGED <<fiatBalance, balances>>
                /\ symbol \notin DOMAIN balances => lastOp'.b = 0

C31_Ledger == [][C31_Step]_vars

\* a subtractBalance above a positive balance was refused, and the other
\* symbol has never been set
C31_Witness ==
    /\ lastOp.op = "subtractBalance"
    /\ lastOp.res = "InsufficientFunds"
    /\ getBalance(balances, lastOp.sym) > 0
    /\ DOMAIN balances # Symbols

\* C32: in every step of a backtest, when the value after the trades is
\* recorded, no order that was resting when the price of the step (the close
\* of the candle) was set in the oracle, and whose fill condition holds at that
\* price, is still pending.
C32_Step ==
    Len(backtest'.assetValues) = Len(backtest.assetValues) + 1
    => \A id \in backtest.resting \cap DOMAIN pendingOrders :
          ~ShouldExecute(pendingOrders[id], backtest.data[backtest.i].close)

C32_FillsBeforeRecording == [][C32_Step]_vars

\* C33: whatever the execute of step k does to the wallet and to the orders,
\* its continuations after an await included, it does before the value of
\* step k is recorded: the driver stands between its call of execute and the
\* recording of that step, it has not gone on and it has not returned.
C33_Step ==
    /\ backtest' = backtest
    /\ <<fiatBalance, balances, pendingOrders, shortPositions, orderIdCounter>>'
         # <<fiatBalance, balances, pendingOrders, shortPositions, orderIdCounter>>
    => /\ backtest.pc = "record"
       /\ strategy'.step = backtest.i

C33_ExecuteCompletes == [][C33_Step]_vars

C34_Sequence(n) == [i \in 1..n |-> i]

C34_Returned ==
    /\ backtest.pc = "done"
    /\ backtest.executed = C34_Sequence(Len(backtest.data))
    /\ backtest.timestamps = C34_Sequence(Len(backtest.data))
    /\ Len(backtest.assetValues) = Len(backtest.data)

C34_Step ==
    /\ backtest.pc # "done" => backtest'.pc # "rejected"
    /\ Len(backtest'.assetValues) = Len(backtest.assetValues) + 1
         => /\ backtest'.assetValues = Append(backtest.assetValues, getTotalAssetValue)
            /\ backtest.executed = C34_Sequence(backtest.i)
            /\ Len(backtest.assetValues) = backtest.i - 1

\* C34: a run over n candles ends; by then execute was called once for each
\* candle, in the order of the candles, and the result holds n timestamps and
\* n asset values, the i-th recorded after the call of execute for candle i.
C34_RunReturns == <>[]C34_Returned /\ [][C34_Step]_vars

\* a run of the grid strategy over three candles has returned and the
\* continuations of its calls have run
C34_Witness ==
    /\ backtest.pc = "done"
    /\ Len(backtest.data) >= 3
    /\ Len(backtest.assetValues) = Len(backtest.data)
    /\ strategy.kind = "grid"
    /\ strategy.isGridInitialized
    /\ microtasks = <<>>

\* C38: when a call of execute that met an initialized grid at a take-profit or
\* stop-loss price has completed, the exchange has no pending order, the
\* instrument balance is 0 and isGridInitialized is false, also when orders of
\* the grid were filled in the meantime.
C38_ClosesAll ==
    strategy.closing /\ strategy.pc = "idle" /\ microtasks = <<>>
    => /\ pendingOrders = EmptyMap
       /\ getBalance(balances, BTC_USDT) = 0
       /\ ~strategy.isGridInitialized

\* C39: once createGrid(symbol, currentPrice) has completed, each pending order
\* it placed rests at a grid price other than currentPrice, a buy order below
\* currentPrice and a sell order above it.
C39_GridOrderPrices ==
    strategy.pc = "idle" /\ microtasks = <<>>
    => \A k \in 1..Len(strategy.gridOrders) :
          LET orderId == strategy.gridOrders[k].orderId
              currentPrice == strategy.gridPrice
          IN  orderId \in DOMAIN pendingOrders =>
                LET order == pendingOrders[orderId]
                IN  /\ order.price \in gridPrices(currentPrice,
                                                  strategy.config.pricePosition)
                    /\ order.price # currentPrice
                    /\ order.isBuy => order.price < currentPrice
                    /\ ~order.isBuy => order.price > currentPrice

====
